---- MODULE Spec2Model ----
(***************************************************************************)
(* A model of src/src/logs/lib.rs (tracelogs): the LogLine record and its  *)
(* derived ordering, the Logs stream (new, merge, filter_logs, next), the  *)
(* Tracer helpers (date, includes, excludes), RegExtractor's               *)
(* timestamp_micros and the free function split_keep.                      *)
(*                                                                         *)
(* A Rust String is modelled as the sequence of its bytes (ASCII only), so *)
(* that comparison, substring search and slicing are computed and not      *)
(* assumed.                                                                *)
(***************************************************************************)
EXTENDS Integers, Sequences, FiniteSets, TLC

VARIABLES
    a,          \* Streams: the receiver stream (a Logs value)
    b,          \* Streams: the second stream, None once moved into merge
    out,        \* Streams: the stream returned by the last merge / filter_logs
    got,        \* Streams: per stream, the records next() has returned so far
    ret,        \* Streams: per stream, what the last next() on it returned
    made,       \* Streams: the merge / filter_logs call that returned out
    xs,         \* Order: a vector of LogLine
    ys,         \* Order: xs after sort()
    zs,         \* Order: ys after a second sort()
    cmp,        \* Order: the table of pairwise comparisons of xs
    text,       \* Split: the text handed to split_keep
    pattern,    \* Split: the delimiter regex (ordered literal alternatives)
    segments,   \* Split: the vector split_keep returned
    pending,    \* Parse: entries of the batch not yet processed
    entry,      \* Parse: the timestamp text of the entry processed last, if any
    parsed,     \* Parse: the date-time chrono parsed from it
    record,     \* Parse: the LogLine built from it
    shown,      \* Parse: what date() returned for that LogLine
    pstatus     \* Parse: "running", "done" or "panicked"

streamVars == <<a, b, out, got, ret, made>>
orderVars == <<xs, ys, zs, cmp>>
splitVars == <<text, pattern, segments>>
parseVars == <<pending, entry, parsed, record, shown, pstatus>>
vars == <<a, b, out, got, ret, made, xs, ys, zs, cmp, text, pattern, segments,
          pending, entry, parsed, record, shown, pstatus>>

(***************************************************************************)
(* Bounds of the model.                                                    *)
(***************************************************************************)
MaxLines == 2        \* records in the first stream handed to Logs::new
MaxOther == 1        \* records in the second stream
MaxSortLen == 3      \* records in a vector handed to sort()
MaxTextLen == 4      \* bytes in a text handed to split_keep
MaxLit == 2          \* bytes in one literal alternative of the delimiter
MaxAlts == 2         \* alternatives in the delimiter
MaxTsLen == 3        \* bytes in a timestamp text
MaxBatch == 2        \* entries in a batch

(***************************************************************************)
(* Option<T>                                                               *)
(***************************************************************************)
None == [some |-> FALSE]
Some(v) == [some |-> TRUE, val |-> v]

RECURSIVE SeqsUpTo(_, _)
SeqsUpTo(S, n) ==
    IF n = 0 THEN {<<>>}
    ELSE LET shorter == SeqsUpTo(S, n - 1)
         IN shorter \cup {Append(s, x) : s \in {t \in shorter : Len(t) = n - 1}, x \in S}

(***************************************************************************)
(* Strings: byte sequences. Ord for str is lexicographic on bytes.         *)
(***************************************************************************)
Less == "Less"
Equal == "Equal"
Greater == "Greater"

cmp_int(x, y) == IF x < y THEN Less ELSE IF x > y THEN Greater ELSE Equal

RECURSIVE cmp_str(_, _)
cmp_str(s, t) ==
    IF s = <<>> /\ t = <<>> THEN Equal
    ELSE IF s = <<>> THEN Less
    ELSE IF t = <<>> THEN Greater
    ELSE IF Head(s) # Head(t) THEN cmp_int(Head(s), Head(t))
    ELSE cmp_str(Tail(s), Tail(t))

\* str::contains(&str): needle occurs in hay as a contiguous substring
contains(hay, needle) ==
    \E i \in 0..(Len(hay) - Len(needle)) :
        SubSeq(hay, i + 1, i + Len(needle)) = needle

(***************************************************************************)
(* LogLine and its derived Ord / Eq                                        *)
(***************************************************************************)
LogLine_new(timestamp, hostname, service, message) ==
    [timestamp |-> timestamp, hostname |-> hostname,
     service |-> service, message |-> message]

\* LogLine_cmp, had hostname been declared before timestamp
LogLine_cmp_fieldswapped(x, y) ==
    IF cmp_str(x.hostname, y.hostname) # Equal THEN cmp_str(x.hostname, y.hostname)
    ELSE IF cmp_int(x.timestamp, y.timestamp) # Equal
         THEN cmp_int(x.timestamp, y.timestamp)
    ELSE IF cmp_str(x.service, y.service) # Equal THEN cmp_str(x.service, y.service)
    ELSE cmp_str(x.message, y.message)

\* #[derive(Ord)]: the fields compared in declaration order
LogLine_cmp(x, y) ==
    IF cmp_int(x.timestamp, y.timestamp) # Equal THEN cmp_int(x.timestamp, y.timestamp)
    ELSE IF cmp_str(x.hostname, y.hostname) # Equal
         THEN cmp_str(x.hostname, y.hostname)
    ELSE IF cmp_str(x.service, y.service) # Equal THEN cmp_str(x.service, y.service)
    ELSE cmp_str(x.message, y.message)

\* Vec::sort(): a stable sort by Ord; computed here by stable insertion
RECURSIVE insert_sorted(_, _)
insert_sorted(x, sorted) ==
    IF sorted = <<>> THEN <<x>>
    ELSE IF LogLine_cmp(x, Head(sorted)) = Less THEN <<x>> \o sorted
    ELSE <<Head(sorted)>> \o insert_sorted(x, Tail(sorted))

RECURSIVE sort_from(_, _)
sort_from(lines, acc) ==
    IF lines = <<>> THEN acc
    ELSE sort_from(Tail(lines), insert_sorted(Head(lines), acc))

\* sort, had the call been left out
sort_unsorted(lines) == lines

sort(lines) == sort_from(lines, <<>>)

(***************************************************************************)
(* Tracer: includes / excludes                                             *)
(***************************************************************************)
\* includes, had it used any() for all()
includes_any(line, words) ==
    \E i \in 1..Len(words) : contains(line.message, words[i])

includes(line, words) ==
    \A i \in 1..Len(words) : contains(line.message, words[i])

excludes(line, words) ==
    \E i \in 1..Len(words) : contains(line.message, words[i])

(***************************************************************************)
(* Logs                                                                    *)
(***************************************************************************)
Logs_new(lines) == [lines |-> lines, line_idx |-> 0]

\* merge, had it extended and sorted the receiver's own vector
merge_sorts_self(self, other) ==
    [self |-> [self EXCEPT !.lines = sort(self.lines \o other.lines)],
     ret |-> Logs_new(sort(self.lines \o other.lines))]

\* merge, had it taken only the records not yet consumed
merge_unconsumed(self, other) ==
    [self |-> self,
     ret |-> Logs_new(sort(SubSeq(self.lines, self.line_idx + 1, Len(self.lines))
                           \o SubSeq(other.lines, other.line_idx + 1, Len(other.lines))))]

\* merge(&mut self, other: Self) -> Self. The result pairs the receiver as
\* the call leaves it with the returned stream.
merge(self, other) ==
    LET lines == sort(self.lines \o other.lines)
    IN [self |-> self, ret |-> Logs_new(lines)]

\* filter_logs(&self, exclude, include) -> Logs
filter_logs(self, exclude, include) ==
    LET inc(x) == includes(x, include)
        exc(x) == ~excludes(x, exclude)
    IN [lines |-> SelectSeq(SelectSeq(self.lines, inc), exc), line_idx |-> 0]

\* next, had it not advanced line_idx
next_no_advance(self) ==
    IF self.line_idx < Len(self.lines)
    THEN [self |-> self, ret |-> Some(self.lines[self.line_idx + 1])]
    ELSE [self |-> self, ret |-> None]

\* Iterator::next(&mut self) -> Option<LogLine>
next(self) ==
    IF self.line_idx < Len(self.lines)
    THEN [self |-> [self EXCEPT !.line_idx = @ + 1],
          ret |-> Some(self.lines[self.line_idx + 1])]
    ELSE [self |-> self, ret |-> None]

(***************************************************************************)
(* Streams: two streams built by Logs::new, then any interleaving of       *)
(* next(), merge() and filter_logs().                                      *)
(***************************************************************************)
\* "b"@1 < "a"@2 by timestamp; the first two tie on the timestamp
StreamRecords ==
    { LogLine_new(1, <<98>>, <<115>>, <<97, 98>>),
      LogLine_new(1, <<97>>, <<115>>, <<98>>),
      LogLine_new(2, <<97>>, <<115>>, <<97>>) }

\* the records of the second stream: one ties with a record of the first
\* on the timestamp, one is equal to a record of the first
OtherRecords ==
    { LogLine_new(1, <<97>>, <<115>>, <<98>>),
      LogLine_new(2, <<97>>, <<115>>, <<97>>) }

\* the term lists offered to filter_logs as include: [], ["a"], ["a","b"]
IncludeLists == { <<>>, <<(<<97>>)>>, <<(<<97>>), (<<98>>)>> }
\* and as exclude: [], ["b"]
ExcludeLists == { <<>>, <<(<<98>>)>> }

OrderIdle == xs = <<>> /\ ys = None /\ zs = None /\ cmp = None
SplitIdle == text = <<>> /\ pattern = <<>> /\ segments = None
ParseIdle ==
    /\ pending = 0 /\ entry = None /\ parsed = None /\ record = None
    /\ shown = None /\ pstatus = "idle"
StreamsIdle ==
    /\ a = Logs_new(<<>>) /\ b = None /\ out = None
    /\ got = [a |-> <<>>, b |-> <<>>, out |-> <<>>]
    /\ ret = [a |-> None, b |-> None, out |-> None] /\ made = [op |-> "idle"]

Init ==
    /\ \E la \in SeqsUpTo(StreamRecords, MaxLines) : a = Logs_new(la)
    /\ \E lb \in SeqsUpTo(OtherRecords, MaxOther) : b = Some(Logs_new(lb))
    /\ out = None
    /\ got = [a |-> <<>>, b |-> <<>>, out |-> <<>>]
    /\ ret = [a |-> None, b |-> None, out |-> None]
    /\ made = [op |-> "none"]
    /\ OrderIdle /\ SplitIdle /\ ParseIdle

Yield(g, r) == IF r.some THEN Append(g, r.val) ELSE g

NextA ==
    LET r == next(a)
    IN /\ a' = r.self
       /\ got' = [got EXCEPT !.a = Yield(@, r.ret)]
       /\ ret' = [ret EXCEPT !.a = Some(r.ret)]
       /\ UNCHANGED <<b, out, made>>
       /\ UNCHANGED <<orderVars, splitVars, parseVars>>

NextB ==
    /\ b.some
    /\ LET r == next(b.val)
       IN /\ b' = Some(r.self)
          /\ got' = [got EXCEPT !.b = Yield(@, r.ret)]
          /\ ret' = [ret EXCEPT !.b = Some(r.ret)]
    /\ UNCHANGED <<a, out, made>>
    /\ UNCHANGED <<orderVars, splitVars, parseVars>>

NextOut ==
    /\ out.some
    /\ LET r == next(out.val)
       IN /\ out' = Some(r.self)
          /\ got' = [got EXCEPT !.out = Yield(@, r.ret)]
          /\ ret' = [ret EXCEPT !.out = Some(r.ret)]
    /\ UNCHANGED <<a, b, made>>
    /\ UNCHANGED <<orderVars, splitVars, parseVars>>

\* out = a.merge(b): b is moved into the call
Merge ==
    /\ b.some
    /\ LET r == merge(a, b.val)
       IN /\ a' = r.self
          /\ out' = Some(r.ret)
    /\ b' = None
    /\ got' = [got EXCEPT !.out = <<>>]
    /\ ret' = [ret EXCEPT !.out = None]
    /\ made' = [op |-> "merge", self |-> a, other |-> b.val]
    /\ UNCHANGED <<orderVars, splitVars, parseVars>>

\* out = a.filter_logs(&exclude, &include)
Filter ==
    \E exclude \in ExcludeLists, include \in IncludeLists :
        /\ out' = Some(filter_logs(a, exclude, include))
        /\ got' = [got EXCEPT !.out = <<>>]
        /\ ret' = [ret EXCEPT !.out = None]
        /\ made' = [op |-> "filter", self |-> a,
                    exclude |-> exclude, include |-> include]
        /\ UNCHANGED <<a, b>>
        /\ UNCHANGED <<orderVars, splitVars, parseVars>>

Next == NextA \/ NextB \/ NextOut \/ Merge \/ Filter

Spec == Init /\ [][Next]_vars

(***************************************************************************)
(* What the claims say, written without the operators above.               *)
(***************************************************************************)
\* s sorts before t: s is a proper prefix of t, or s has the smaller byte
\* at the first place where they differ
StrBefore(s, t) ==
    \E k \in 1..Len(t) :
        /\ k - 1 <= Len(s)
        /\ SubSeq(s, 1, k - 1) = SubSeq(t, 1, k - 1)
        /\ (Len(s) = k - 1 \/ s[k] < t[k])

\* x sorts before y: timestamp first, then hostname, service, message
RecBefore(x, y) ==
    \/ x.timestamp < y.timestamp
    \/ /\ x.timestamp = y.timestamp
       /\ \/ StrBefore(x.hostname, y.hostname)
          \/ /\ x.hostname = y.hostname
             /\ \/ StrBefore(x.service, y.service)
                \/ /\ x.service = y.service
                   /\ StrBefore(x.message, y.message)

Ascending(lines) ==
    \A i \in 1..Len(lines), j \in 1..Len(lines) :
        i < j => (RecBefore(lines[i], lines[j]) \/ lines[i] = lines[j])

Count(lines, x) == Cardinality({i \in 1..Len(lines) : lines[i] = x})

SameRecords(l1, l2) ==
    /\ Len(l1) = Len(l2)
    /\ \A i \in 1..Len(l1) : Count(l1, l1[i]) = Count(l2, l1[i])

IsSubstring(term, message) ==
    \E i \in 1..(Len(message) + 1) :
        \E j \in (i - 1)..Len(message) : SubSeq(message, i, j) = term

Kept(r, exclude, include) ==
    /\ \A k \in 1..Len(include) : IsSubstring(include[k], r.message)
    /\ \A k \in 1..Len(exclude) : ~IsSubstring(exclude[k], r.message)

\* lines2 holds exactly the records of lines1 at the indices in keep, in order
IsSelection(lines2, lines1, keep) ==
    /\ Len(lines2) = Cardinality(keep)
    /\ \A k \in 1..Len(lines2) :
        \E i \in keep : /\ Cardinality({j \in keep : j <= i}) = k
                        /\ lines2[k] = lines1[i]

\* C1: merge(a, b), at any cursor positions of a and b, returns a stream
\* holding all records of a and all of b (duplicates kept), ascending in the
\* LogLine order, with its cursor at the start.
C1_MergeSortedConcat ==
    made.op = "merge" =>
        /\ out.some
        /\ Len(out.val.lines) = Len(made.self.lines) + Len(made.other.lines)
        /\ SameRecords(out.val.lines, made.self.lines \o made.other.lines)
        /\ Ascending(out.val.lines)
        /\ (ret.out = None => out.val.line_idx = 0)

\* a merge of two partly consumed, non-empty streams whose concatenation is
\* not already ascending
C1_Witness ==
    /\ made.op = "merge"
    /\ ret.out = None
    /\ made.self.line_idx > 0 /\ made.self.line_idx < Len(made.self.lines)
    /\ made.other.line_idx > 0
    /\ ~Ascending(made.self.lines \o made.other.lines)
    /\ Len(out.val.lines) = MaxLines + MaxOther

\* C2: merge(A, B) and merge(B, A) hold the same record at every index.
C2_MergeCommutes ==
    made.op = "merge" =>
        LET swapped == merge(made.other, made.self).ret
        IN /\ Len(swapped.lines) = Len(out.val.lines)
           /\ \A i \in 1..Len(out.val.lines) : swapped.lines[i] = out.val.lines[i]

\* a merge of two different non-empty streams
C2_Witness ==
    /\ made.op = "merge"
    /\ made.self.lines # <<>> /\ made.other.lines # <<>>
    /\ made.self.lines \o made.other.lines # made.other.lines \o made.self.lines

\* C3: filter(exclude, include) returns exactly the records whose message
\* holds every include term and no exclude term, in their original order;
\* with both lists empty, the input sequence unchanged.
C3_FilterSelects ==
    made.op = "filter" =>
        LET src == made.self.lines
            keep == {i \in 1..Len(src) : Kept(src[i], made.exclude, made.include)}
        IN /\ out.some
           /\ IsSelection(out.val.lines, src, keep)
           /\ (made.exclude = <<>> /\ made.include = <<>> => out.val.lines = src)

\* a filter with an include and an exclude term, on a partly consumed
\* stream, that keeps one record and drops another
C3_Witness ==
    /\ made.op = "filter"
    /\ made.include # <<>> /\ made.exclude # <<>>
    /\ made.self.line_idx > 0
    /\ out.val.lines # <<>>
    /\ Len(out.val.lines) < Len(made.self.lines)

\* a filter with two include terms that keeps a record and drops another
C3_WitnessAllTerms ==
    /\ made.op = "filter"
    /\ Len(made.include) = 2 /\ made.exclude = <<>>
    /\ out.val.lines # <<>>
    /\ Len(out.val.lines) < Len(made.self.lines)

\* What next() has done to stream s so far
Consumed(s, g, r) ==
    /\ s.line_idx <= Len(s.lines)
    /\ g = SubSeq(s.lines, 1, s.line_idx)
    /\ (r = Some(None) => s.line_idx = Len(s.lines))
    /\ (r.some /\ r.val.some => r.val.val = s.lines[s.line_idx])

\* From an exhausted stream next() returns None and leaves the cursor; the
\* cursor never moves backward
Forward(s, r, s2, r2) ==
    /\ s2.line_idx >= s.line_idx
    /\ (s.line_idx = Len(s.lines) => s2.line_idx = s.line_idx /\ r2 \in {r, Some(None)})

\* C6: next() yields the backing records in backing order, each once; from an
\* exhausted stream every next() returns None; the cursor never moves
\* backward or past the length.
C6_ForwardOnlyCursor ==
    /\ [](/\ Consumed(a, got.a, ret.a)
          /\ (b.some => Consumed(b.val, got.b, ret.b))
          /\ (out.some => Consumed(out.val, got.out, ret.out)))
    /\ [][/\ Forward(a, ret.a, a', ret.a')
          /\ (b.some /\ b'.some => Forward(b.val, ret.b, b'.val, ret.b'))]_vars

\* a stream of two records fully consumed, then asked again
C6_Witness ==
    /\ Len(a.lines) = MaxLines
    /\ a.line_idx = Len(a.lines)
    /\ got.a = a.lines
    /\ ret.a = Some(None)

\* C9: merge and filter_logs leave the receiver's records and cursor as they
\* were; consuming the returned stream does not move the receiver's cursor,
\* and consuming the receiver does not move the returned stream's.
C9_NoMutation ==
    [][/\ (made' # made => a' = a)
       /\ (ret'.out # ret.out => a' = a)
       /\ (ret'.a # ret.a => out' = out)]_vars

\* the receiver partly consumed, a merge made, and the returned stream
\* partly consumed while the receiver stayed where it was
C9_Witness ==
    /\ made.op = "merge"
    /\ a = made.self
    /\ a.line_idx = 1 /\ Len(a.lines) = MaxLines
    /\ out.some /\ out.val.line_idx = 2

(***************************************************************************)
(* Order: a vector of LogLine is compared pairwise and sorted twice.       *)
(***************************************************************************)
\* every combination of two timestamps, hostnames "a" / "b", services
\* "a" / "ab" and messages "a" / "b"
OrderRecords ==
    { LogLine_new(t, h, sv, m) :
        t \in {1, 2}, h \in {<<97>>, <<98>>},
        sv \in {<<97>>, <<97, 98>>}, m \in {<<97>>, <<98>>} }

InitOrder ==
    /\ xs \in SeqsUpTo(OrderRecords, MaxSortLen)
    /\ ys = None /\ zs = None /\ cmp = None
    /\ StreamsIdle /\ SplitIdle /\ ParseIdle

\* x.cmp(&y) for every two elements of xs
Compare ==
    /\ cmp = None
    /\ cmp' = Some([i \in 1..Len(xs) |->
                      [j \in 1..Len(xs) |-> LogLine_cmp(xs[i], xs[j])]])
    /\ UNCHANGED <<xs, ys, zs>>
    /\ UNCHANGED <<streamVars, splitVars, parseVars>>

\* let mut ys = xs.clone(); ys.sort()
Sort ==
    /\ ys = None
    /\ ys' = Some(sort(xs))
    /\ UNCHANGED <<xs, zs, cmp>>
    /\ UNCHANGED <<streamVars, splitVars, parseVars>>

\* let mut zs = ys.clone(); zs.sort()
SortAgain ==
    /\ ys.some /\ zs = None
    /\ zs' = Some(sort(ys.val))
    /\ UNCHANGED <<xs, ys, cmp>>
    /\ UNCHANGED <<streamVars, splitVars, parseVars>>

NextOrder == Compare \/ Sort \/ SortAgain

SpecOrder == InitOrder /\ [][NextOrder]_vars

\* C7: the LogLine order is total, compares timestamp, then hostname, then
\* service, then message; two records are Equal only when all four fields
\* are equal; sorting a sorted vector leaves it unchanged.
C7_TotalOrder ==
    /\ cmp.some =>
        /\ \A i \in 1..Len(xs), j \in 1..Len(xs) :
            LET c == cmp.val[i][j]
            IN /\ c \in {Less, Equal, Greater}
               /\ (c = Less) = RecBefore(xs[i], xs[j])
               /\ (c = Greater) = RecBefore(xs[j], xs[i])
               /\ (c = Equal) = (/\ xs[i].timestamp = xs[j].timestamp
                                 /\ xs[i].hostname = xs[j].hostname
                                 /\ xs[i].service = xs[j].service
                                 /\ xs[i].message = xs[j].message)
        /\ \A i \in 1..Len(xs), j \in 1..Len(xs), k \in 1..Len(xs) :
            cmp.val[i][j] = Less /\ cmp.val[j][k] = Less => cmp.val[i][k] = Less
    /\ ys.some => Ascending(ys.val) /\ SameRecords(ys.val, xs)
    /\ zs.some => zs.val = ys.val

\* three distinct records out of order, two of them tied on timestamp and
\* hostname, compared and sorted twice
C7_Witness ==
    /\ cmp.some /\ zs.some
    /\ Len(xs) = MaxSortLen
    /\ Cardinality({xs[i] : i \in 1..Len(xs)}) = Len(xs)
    /\ ys.val # xs
    /\ \E i \in 1..Len(xs), j \in 1..Len(xs) :
        /\ i # j
        /\ xs[i].timestamp = xs[j].timestamp
        /\ xs[i].hostname = xs[j].hostname
    /\ \E i \in 1..Len(xs), j \in 1..Len(xs) :
        /\ xs[i].timestamp < xs[j].timestamp
        /\ cmp_str(xs[i].hostname, xs[j].hostname) = Greater

(***************************************************************************)
(* Split: split_keep on a text and a delimiter. The delimiter regex is an  *)
(* alternation of non-empty literals, lit1|lit2|..., which the regex crate *)
(* matches leftmost-first: at the leftmost position where any alternative  *)
(* matches, the first alternative that matches there.                      *)
(***************************************************************************)
NoMatch == [found |-> FALSE]

\* the alternative of r that matches text at byte offset i (0-based)
RECURSIVE match_here(_, _, _)
match_here(r, txt, i) ==
    IF r = <<>> THEN NoMatch
    ELSE IF i + Len(Head(r)) <= Len(txt)
            /\ SubSeq(txt, i + 1, i + Len(Head(r))) = Head(r)
         THEN [found |-> TRUE, index |-> i, matched |-> Head(r)]
    ELSE match_here(Tail(r), txt, i)

\* the leftmost match at or after byte offset from
RECURSIVE find_at(_, _, _)
find_at(r, txt, from) ==
    IF from >= Len(txt) THEN NoMatch
    ELSE IF match_here(r, txt, from).found THEN match_here(r, txt, from)
    ELSE find_at(r, txt, from + 1)

\* text.match_indices(r): the successive non-overlapping matches
RECURSIVE match_indices_from(_, _, _)
match_indices_from(r, txt, from) ==
    LET m == find_at(r, txt, from)
    IN IF ~m.found THEN <<>>
       ELSE <<m>> \o match_indices_from(r, txt, m.index + Len(m.matched))

match_indices(r, txt) == match_indices_from(r, txt, 0)

\* split_loop, had it pushed the span before a match even when empty
RECURSIVE split_loop_pushes_empty(_, _, _, _)
split_loop_pushes_empty(txt, matches, lst, result) ==
    IF matches = <<>> THEN [result |-> result, last |-> lst]
    ELSE LET m == Head(matches)
             r1 == Append(result, SubSeq(txt, lst + 1, m.index))
         IN split_loop_pushes_empty(txt, Tail(matches), m.index + Len(m.matched),
                                    Append(r1, m.matched))

\* the for loop of split_keep: [result, last] once the matches are consumed
RECURSIVE split_loop(_, _, _, _)
split_loop(txt, matches, lst, result) ==
    IF matches = <<>> THEN [result |-> result, last |-> lst]
    ELSE LET m == Head(matches)
             r1 == IF lst # m.index
                   THEN Append(result, SubSeq(txt, lst + 1, m.index))
                   ELSE result
         IN split_loop(txt, Tail(matches), m.index + Len(m.matched),
                       Append(r1, m.matched))

\* split_keep, had it left out the remainder after the last match
split_keep_drops_tail(r, txt) ==
    split_loop(txt, match_indices(r, txt), 0, <<>>).result

\* split_keep(r, text) -> Vec<&str>
split_keep(r, txt) ==
    LET done == split_loop(txt, match_indices(r, txt), 0, <<>>)
    IN IF done.last < Len(txt)
       THEN Append(done.result, SubSeq(txt, done.last + 1, Len(txt)))
       ELSE done.result

TextBytes == {97, 98}
Literals == {l \in SeqsUpTo(TextBytes, MaxLit) : l # <<>>}
Patterns == {r \in SeqsUpTo(Literals, MaxAlts) : r # <<>>}

InitSplit ==
    /\ text \in SeqsUpTo(TextBytes, MaxTextLen)
    /\ pattern \in Patterns
    /\ segments = None
    /\ StreamsIdle /\ OrderIdle /\ ParseIdle

Split ==
    /\ segments = None
    /\ segments' = Some(split_keep(pattern, text))
    /\ UNCHANGED <<text, pattern>>
    /\ UNCHANGED <<streamVars, orderVars, parseVars>>

NextSplit == Split

SpecSplit == InitSplit /\ [][NextSplit]_vars

RECURSIVE Concat(_)
Concat(segs) == IF segs = <<>> THEN <<>> ELSE Head(segs) \o Concat(Tail(segs))

IsPrefix(p, txt) == Len(p) <= Len(txt) /\ SubSeq(txt, 1, Len(p)) = p

\* C4: split_keep is lossless: the returned segments, concatenated in
\* order, are the input text.
C4_SplitLossless ==
    segments.some => Concat(segments.val) = text

\* a text with text before, between and after two delimiter matches
C4_Witness ==
    /\ segments.some
    /\ Len(segments.val) = 4
    /\ segments.val[2] \in {pattern[k] : k \in 1..Len(pattern)}
    /\ segments.val[3] \in {pattern[k] : k \in 1..Len(pattern)}
    /\ Len(text) = MaxTextLen

\* C5: on a non-empty text without a delimiter match split_keep returns the
\* text as its one element; on a text that begins with a delimiter match the
\* first element is that match, not an empty segment.
C5_SplitEdges ==
    segments.some =>
        /\ (/\ text # <<>>
            /\ \A k \in 1..Len(pattern) : ~IsSubstring(pattern[k], text))
           => segments.val = <<text>>
        /\ \A k \in 1..Len(pattern) :
            (/\ IsPrefix(pattern[k], text)
             /\ \A k2 \in 1..(k - 1) : ~IsPrefix(pattern[k2], text))
            => /\ segments.val # <<>>
               /\ segments.val[1] = pattern[k]
               /\ segments.val[1] # <<>>

\* a text that begins with a match of the second alternative only, split
\* into that match and more
C5_Witness ==
    /\ segments.some
    /\ Len(pattern) = 2
    /\ ~IsPrefix(pattern[1], text) /\ IsPrefix(pattern[2], text)
    /\ Len(segments.val) > 1

\* a non-empty text in which the delimiter has no match, split
C5_WitnessNoMatch ==
    /\ segments.some
    /\ Len(text) = MaxTextLen
    /\ \A k \in 1..Len(pattern) : ~IsSubstring(pattern[k], text)

(***************************************************************************)
(* Parse: the entries of a batch go one by one through timestamp_micros    *)
(* and LogLine::new, and the record built is shown through date().         *)
(***************************************************************************)
IsDigit(c) == c \in 48..57

RECURSIVE DigitsValue(_, _)
DigitsValue(ds, acc) ==
    IF ds = <<>> THEN acc ELSE DigitsValue(Tail(ds), acc * 10 + (Head(ds) - 48))

RECURSIVE LeadingDigits(_)
LeadingDigits(s) ==
    IF s # <<>> /\ IsDigit(Head(s)) THEN 1 + LeadingDigits(Tail(s)) ELSE 0

\* ASCII white space: tab, line feed, vertical tab, form feed, carriage
\* return, space
IsSpace(c) == c \in {9, 10, 11, 12, 13, 32}

\* s.trim_start()
RECURSIVE trim_start(_)
trim_start(s) ==
    IF s # <<>> /\ IsSpace(Head(s)) THEN trim_start(Tail(s)) ELSE s

RECURSIVE Pow10(_)
Pow10(n) == IF n = 0 THEN 1 ELSE 10 * Pow10(n - 1)

\* chrono's parser, for the format items %s (seconds since the epoch; as
\* every numeric item it skips leading white space) and %.f (an optional
\* '.' and 1 to 9 digits of fraction, no white space skipped). st is
\* [ok, rest, secs, nanos].
parse_item(item, st) ==
    LET trimmed == trim_start(st.rest)
        n == LeadingDigits(trimmed)
        m == IF st.rest = <<>> THEN 0 ELSE LeadingDigits(Tail(st.rest))
    IN CASE item = "%s" ->
              IF n = 0 THEN [st EXCEPT !.ok = FALSE]
              ELSE [st EXCEPT !.secs = DigitsValue(SubSeq(trimmed, 1, n), 0),
                              !.rest = SubSeq(trimmed, n + 1, Len(trimmed))]
         [] item = "%.f" ->
              IF st.rest = <<>> \/ Head(st.rest) # 46 THEN st
              ELSE IF m = 0 THEN [st EXCEPT !.ok = FALSE]
              ELSE [st EXCEPT
                      !.nanos = IF m <= 9
                                THEN DigitsValue(SubSeq(st.rest, 2, m + 1), 0)
                                     * Pow10(9 - m)
                                ELSE DigitsValue(SubSeq(st.rest, 2, 10), 0),
                      !.rest = SubSeq(st.rest, m + 2, Len(st.rest))]

RECURSIVE parse_items(_, _)
parse_items(items, st) ==
    IF ~st.ok \/ items = <<>> THEN st
    ELSE parse_items(Tail(items), parse_item(Head(items), st))

\* NaiveDateTime::parse_from_str(s, fmt): Ok(date-time) or Err
NaiveDateTime_parse_from_str(s, fmt) ==
    LET st == parse_items(fmt, [ok |-> TRUE, rest |-> s, secs |-> 0, nanos |-> 0])
    IN IF st.ok /\ st.rest = <<>>
       THEN [ok |-> TRUE, val |-> [secs |-> st.secs, nanos |-> st.nanos]]
       ELSE [ok |-> FALSE]

\* NaiveDateTime::from_timestamp(secs, nsecs)
NaiveDateTime_from_timestamp(secs, nsecs) == [secs |-> secs, nanos |-> nsecs]

\* the RegExtractor of the run: its strftime_pattern is "%s%.f"
Extractor == [strftime_pattern |-> <<"%s", "%.f">>]

\* RegExtractor::timestamp_micros(&self, strftime) -> i64; unwrap() on an
\* Err panics
timestamp_micros(self, strftime) ==
    LET date_time == NaiveDateTime_parse_from_str(strftime, self.strftime_pattern)
    IN IF ~date_time.ok THEN [panic |-> TRUE]
       ELSE [panic |-> FALSE,
             value |-> date_time.val.secs * 1000000
                       + (date_time.val.nanos \div 1000)]

\* Tracer::date(&self) for LogLine (timestamps here are not negative, so
\* Rust's truncating / and % are \div and %)
date(self) ==
    LET secs == self.timestamp \div 1000000
        nsecs == self.timestamp % 1000000000
    IN NaiveDateTime_from_timestamp(secs, nsecs)

\* the bytes of a timestamp text: '0', '1', '.', 'x', ' '
TsBytes == {48, 49, 46, 120, 32}

InitParse ==
    /\ pending \in 1..MaxBatch
    /\ entry = None /\ parsed = None /\ record = None /\ shown = None
    /\ pstatus = "running"
    /\ StreamsIdle /\ OrderIdle /\ SplitIdle

\* the next entry of the batch: its timestamp text is parsed and a LogLine
\* built; a panic unwinds out of the batch
ParseEntry ==
    /\ pstatus = "running"
    /\ \E txt \in SeqsUpTo(TsBytes, MaxTsLen) :
        LET r == timestamp_micros(Extractor, txt)
        IN /\ entry' = Some(txt)
           /\ shown' = None
           /\ IF r.panic
              THEN /\ pstatus' = "panicked"
                   /\ UNCHANGED <<pending, parsed, record>>
              ELSE /\ parsed' = Some(NaiveDateTime_parse_from_str(
                                        txt, Extractor.strftime_pattern).val)
                   /\ record' = Some(LogLine_new(r.value, <<104>>, <<115>>, <<109>>))
                   /\ pending' = pending - 1
                   /\ pstatus' = IF pending = 1 THEN "done" ELSE "running"
    /\ UNCHANGED <<streamVars, orderVars, splitVars>>

\* Tracer::header() asks the record for its date()
ShowDate ==
    /\ record.some /\ shown = None
    /\ shown' = Some(date(record.val))
    /\ UNCHANGED <<pending, entry, parsed, record, pstatus>>
    /\ UNCHANGED <<streamVars, orderVars, splitVars>>

NextParse == ParseEntry \/ ShowDate

SpecParse == InitParse /\ [][NextParse]_vars

\* txt is, after any leading white space, digits, or digits, a '.' and
\* digits
Conforms(txt) ==
    \E w \in 0..Len(txt) : \E n \in (w + 1)..Len(txt) :
        /\ \A i \in 1..w : txt[i] \in {9, 10, 11, 12, 13, 32}
        /\ \A i \in (w + 1)..n : txt[i] \in 48..57
        /\ \/ n = Len(txt)
           \/ /\ n + 2 <= Len(txt)
              /\ txt[n + 1] = 46
              /\ \A i \in (n + 2)..Len(txt) : txt[i] \in 48..57

\* C8: a timestamp text that does not conform to the format gives a
\* recoverable error; it never aborts the processing of the batch.
C8_MalformedRecoverable ==
    (entry.some /\ ~Conforms(entry.val)) => pstatus # "panicked"

\* C10: date() returns the instant of the record's timestamp t >= 0: seconds
\* t div 1000000 and a sub-second part of (t mod 1000000) microseconds, below
\* one second, so that it is the date-time timestamp_micros parsed.
C10_DateRoundTrip ==
    shown.some =>
        LET t == record.val.timestamp
        IN /\ shown.val.secs = t \div 1000000
           /\ shown.val.nanos = (t % 1000000) * 1000
           /\ shown.val.nanos < 1000000000
           /\ shown.val = parsed.val

====
